---- MODULE Spec2Model ----
(***************************************************************************)
(* Model of read.py: the CSC measurement decoder and derived-speed state   *)
(* of CyclingSensorMonitor, and the session run by connect_and_monitor.    *)
(*                                                                         *)
(* Numbers.  A notification is a sequence of bytes (0..255).  A 16-bit     *)
(* field is an integer.  A 32-bit field does not fit the integers of the   *)
(* model checker, so a 32-bit value and every (signed, unbounded in        *)
(* Python) difference of two of them is a pair <<hi, lo>> standing for     *)
(* hi * 65536 + lo with lo in 0..65535; hi is negative for a negative      *)
(* number.  The speed is kept as the exact quotient the code evaluates:    *)
(* [revs |-> rev_diff, ticks |-> time_diff] stands for                     *)
(*   (rev_diff * 2105 / 1000.0) / (time_diff / 1024.0) * 3.6   km/h.       *)
(* The rounding of the floating-point operations is left out; it changes   *)
(* neither the sign of a speed nor whether it is 0.0.                      *)
(* None is <<>>, a present value v is <<v>>.                               *)
(***************************************************************************)
EXTENDS Integers, Sequences, FiniteSets, TLC

VARIABLES
    client,             \* self.client : None or the BleakClient made by connect_and_monitor
    is_connected,       \* self.client.is_connected
    subscribed,         \* start_notify has registered measurement_callback
    last_wheel_revs,    \* self.last_wheel_revs : None or a 32-bit count
    last_wheel_time,    \* self.last_wheel_time : None or a 16-bit time
    speed_kmh,          \* self.speed_kmh
    pc,                 \* position of connect_and_monitor ("idle": not running)
    attempt,            \* the loop variable of the connection attempts
    raised,             \* the exception raised inside the try of connect_and_monitor, "none" if none
    propagates,         \* the exception the last call of connect_and_monitor ended with, "none" if none
    calls,              \* the calls of connect, start_notify, stop_notify and disconnect
                        \* made on self.client by this call of connect_and_monitor
    inflight,           \* the notifications the transport holds, in order of arrival
    sent,               \* the frame the sensor sent in the notification handled last
    data,               \* the buffer of that notification
    measurement,        \* what parse_csc_measurement returned for it
    shown,              \* what measurement_callback printed for it
    pre,                \* the monitor's fields when that notification arrived
    diffs,              \* rev_diff and time_diff of that call, None if not computed
    last_valid,         \* the wheel sample of the last complete wheel frame received
    wheel_seen,         \* a wheel sample was decoded during this call of connect_and_monitor
    sessions            \* number of calls of connect_and_monitor so far

vars == <<client, is_connected, subscribed, last_wheel_revs, last_wheel_time,
          speed_kmh, pc, attempt, raised, propagates, calls, inflight, sent, data,
          measurement, shown, pre, diffs, last_valid, wheel_seen, sessions>>

----------------------------------------------------------------------------
(* Options and wide numbers *)

None == <<>>

Some(v) == <<v>>

Get(o) == o[1]

Wide(hi, lo) == <<hi, lo>>

\* a - b on wide numbers, as Python's unbounded signed subtraction
WideSub(a, b) ==
    LET lo == a[2] - b[2]
        hi == a[1] - b[1]
    IN  IF lo < 0 THEN <<hi - 1, lo + 65536>> ELSE <<hi, lo>>

WideIsNeg(a) == a[1] < 0

WideIsZero(a) == a[1] = 0 /\ a[2] = 0

----------------------------------------------------------------------------
(* Program constants *)

WHEEL_CIRCUMFERENCE_MM == 2105

max_retries == 3

----------------------------------------------------------------------------
(* struct.unpack on a slice data[offset:offset+n]; offset is Python's      *)
(* 0-based offset, sequences here are 1-based.                             *)

\* struct.unpack('<H', data[offset:offset+2])[0]
unpack_H(d, offset) == d[offset + 1] + 256 * d[offset + 2]

\* the 4 bytes read with the two 16-bit halves in the wrong order
unpack_I_HalvesSwapped(d, offset) ==
    Wide(d[offset + 1] + 256 * d[offset + 2], d[offset + 3] + 256 * d[offset + 4])

\* struct.unpack('<I', data[offset:offset+4])[0]
unpack_I(d, offset) ==
    Wide(d[offset + 3] + 256 * d[offset + 4], d[offset + 1] + 256 * d[offset + 2])

\* flags & 0x01
wheel_revolution_present(flags) == flags % 2 = 1

\* flags & 0x02
crank_revolution_present(flags) == (flags \div 2) % 2 = 1

\* the least length of a buffer that holds every field its flags announce
MinLength(flags) ==
    1 + (IF wheel_revolution_present(flags) THEN 6 ELSE 0)
      + (IF crank_revolution_present(flags) THEN 4 ELSE 0)

\* the wheel block runs only when the buffer holds every flagged field
WheelDataFits_NeedsAllFields(d, offset) == Len(d) >= MinLength(d[1])

\* the wheel block needs one byte more than the field has
WheelDataFits_OffByOne(d, offset) == Len(d) > offset + 6

\* len(data) >= offset + 6
WheelDataFits(d, offset) == Len(d) >= offset + 6

\* len(data) >= offset + 4
CrankDataFits(d, offset) == Len(d) >= offset + 4

\* rev_diff = wheel_revs - self.last_wheel_revs
RevDiff(wheel_revs, last_revs) == WideSub(wheel_revs, last_revs)

\* the time delta without the rollover correction
TimeDiff_NoRollover(wheel_time, last_time) == wheel_time - last_time

\* time_diff = wheel_time - self.last_wheel_time; if time_diff < 0: time_diff += 65536
TimeDiff(wheel_time, last_time) ==
    LET time_diff == wheel_time - last_time
    IN  IF time_diff < 0 THEN time_diff + 65536 ELSE time_diff

\* a guard that lets a time_diff of 0 through to the division
SpeedGuard_AllowsZero(time_diff) == time_diff >= 0

\* if time_diff > 0:  (the guard of the speed computation)
SpeedGuard(time_diff) == time_diff > 0

\* 0.0
ZeroSpeed == [revs |-> Wide(0, 0), ticks |-> 1]

\* the speed with time_diff taken for seconds (the division by 1024.0 left out)
SpeedOf_TicksAsSeconds(rev_diff, time_diff) ==
    IF WideIsZero(rev_diff) THEN ZeroSpeed
    ELSE [revs |-> rev_diff, ticks |-> time_diff * 1024]

\* speed_ms * 3.6, with speed_ms = (rev_diff * 2105 / 1000.0) / (time_diff / 1024.0);
\* kept as the exact quotient, every quotient with rev_diff = 0 being 0.0
SpeedOf(rev_diff, time_diff) ==
    IF WideIsZero(rev_diff) THEN ZeroSpeed
    ELSE [revs |-> rev_diff, ticks |-> time_diff]

\* the sign of a speed: WHEEL_CIRCUMFERENCE_MM, 1024.0, 1000.0, 3.6 and ticks are positive
SpeedIsNegative(s) == WideIsNeg(s.revs)

\* a speed in thousandths of a km/h, rounded down, for a count delta of 0..276
\* (larger ones do not fit the integers of the model checker)
MilliKmh(s) ==
    (s.revs[2] * ((WHEEL_CIRCUMFERENCE_MM * 1024 * 36) \div 10)) \div s.ticks

\* the initial value of result['speed_kmh']
ResultSpeedDefault == ZeroSpeed

\* the two stores moved after the wheel block, storing the result's fields
StoreSample_Unguarded(wheel, wheel_revs, wheel_time, lwr, lwt) ==
    IF wheel THEN <<Some(wheel_revs), Some(wheel_time)>> ELSE <<None, None>>

\* the two stores moved into the speed computation, skipped when the time delta is 0
StoreSample_SkipsZeroDelta(wheel, wheel_revs, wheel_time, lwr, lwt) ==
    IF wheel /\ Some(wheel_time) # lwt
    THEN <<Some(wheel_revs), Some(wheel_time)>> ELSE <<lwr, lwt>>

\* the two stores run for every notification, with 0 where no wheel data was parsed
StoreSample_ZeroWithoutWheel(wheel, wheel_revs, wheel_time, lwr, lwt) ==
    IF wheel THEN <<Some(wheel_revs), Some(wheel_time)>>
    ELSE <<Some(Wide(0, 0)), Some(0)>>

\* self.last_wheel_revs = wheel_revs; self.last_wheel_time = wheel_time, the last
\* statements of the wheel block: run when the block runs, whatever the deltas
StoreSample(wheel, wheel_revs, wheel_time, lwr, lwt) ==
    IF wheel THEN <<Some(wheel_revs), Some(wheel_time)>> ELSE <<lwr, lwt>>

\* parse_csc_measurement(self, data): the returned dict (None for an empty
\* buffer) and the new values of the three fields of self
parse_csc_measurement(d, lwr, lwt, spd) ==
    IF Len(d) < 1
    THEN [result |-> None, last_wheel_revs |-> lwr, last_wheel_time |-> lwt,
          speed_kmh |-> spd, diffs |-> None]
    ELSE
    LET flags == d[1]
        wheel == wheel_revolution_present(flags) /\ WheelDataFits(d, 1)
        wheel_revs == unpack_I(d, 1)
        wheel_time == unpack_H(d, 5)
        calc == wheel /\ lwr # None /\ lwt # None
        rev_diff == RevDiff(wheel_revs, Get(lwr))
        time_diff == TimeDiff(wheel_time, Get(lwt))
        computed == calc /\ SpeedGuard(time_diff)
        new_speed == IF computed THEN SpeedOf(rev_diff, time_diff) ELSE spd
        offset == IF wheel THEN 1 + 6 ELSE 1
        crank == crank_revolution_present(flags) /\ CrankDataFits(d, offset)
        stored == StoreSample(wheel, wheel_revs, wheel_time, lwr, lwt)
    IN  [result |-> Some([
            wheel_revs |-> IF wheel THEN Some(wheel_revs) ELSE None,
            wheel_time |-> IF wheel THEN Some(wheel_time) ELSE None,
            crank_revs |-> IF crank THEN Some(unpack_H(d, offset)) ELSE None,
            crank_time |-> IF crank THEN Some(unpack_H(d, offset + 2)) ELSE None,
            speed_kmh  |-> IF computed THEN new_speed ELSE ResultSpeedDefault]),
         last_wheel_revs |-> stored[1],
         last_wheel_time |-> stored[2],
         speed_kmh |-> new_speed,
         diffs |-> IF calc THEN Some([rev |-> rev_diff, time |-> time_diff,
                                      computed |-> computed])
                   ELSE None]

\* a callback without 'if measurement:', printing a line for None as well
Printed_WithoutCheck(m) ==
    IF m = None
    THEN Some([speed_kmh |-> None, wheel_revs |-> None, wheel_time |-> None,
               crank_revs |-> None])
    ELSE Some([
        speed_kmh  |-> IF Get(m).wheel_revs # None THEN Some(Get(m).speed_kmh) ELSE None,
        wheel_revs |-> Get(m).wheel_revs,
        wheel_time |-> IF Get(m).wheel_revs # None THEN Get(m).wheel_time ELSE None,
        crank_revs |-> Get(m).crank_revs])

\* what measurement_callback prints for a parsed measurement
Printed(m) ==
    IF m = None THEN None
    ELSE Some([
        speed_kmh  |-> IF Get(m).wheel_revs # None THEN Some(Get(m).speed_kmh) ELSE None,
        wheel_revs |-> Get(m).wheel_revs,
        wheel_time |-> IF Get(m).wheel_revs # None THEN Get(m).wheel_time ELSE None,
        crank_revs |-> Get(m).crank_revs])

----------------------------------------------------------------------------
(* The sensor: the frames it can send.  A frame is the flags byte, the     *)
(* fields physically laid out after it (wheel, crank: None when not laid   *)
(* out), trailing bytes, and the number of bytes that reach the callback.  *)

MaxTrailing == 1

MaxSessions == 2

\* the 2 bytes struct.unpack('<H') reads a 16-bit value from
pack_H(v) == <<v % 256, v \div 256>>

\* the 4 bytes struct.unpack('<I') reads a 32-bit value from
pack_I(w) == pack_H(w[2]) \o pack_H(w[1])

Payload(f) ==
    <<f.flags>>
    \o (IF f.wheel = None THEN <<>>
        ELSE pack_I(Get(f.wheel).revs) \o pack_H(Get(f.wheel).time))
    \o (IF f.crank = None THEN <<>>
        ELSE pack_H(Get(f.crank).revs) \o pack_H(Get(f.crank).time))
    \o f.trailing

Buffer(f) == SubSeq(Payload(f), 1, f.len)

Opt(S) == {None} \cup {Some(x) : x \in S}

Trails(bytes, n) == UNION {[1..k -> bytes] : k \in 0..n}

\* every frame over the given sets; a frame cut short carries no trailing bytes
Frames(flagSet, wheelSet, crankSet, trailSet) ==
    {f \in [flags : flagSet, wheel : Opt(wheelSet), crank : Opt(crankSet),
            trailing : trailSet, len : 0..(11 + MaxTrailing)] :
        /\ f.len <= Len(Payload(f))
        /\ f.len < Len(Payload(f)) => f.trailing = <<>>}

\* the layout of the frame is the one its flags byte announces
LayoutMatches(f) ==
    /\ (f.wheel # None) <=> wheel_revolution_present(f.flags)
    /\ (f.crank # None) <=> crank_revolution_present(f.flags)

\* samples sent during a session: a count about to wrap, and small counts
SessionWheels ==
    {[revs |-> Wide(65535, 65530), time |-> 65500],
     [revs |-> Wide(0, 4), time |-> 100],
     [revs |-> Wide(0, 7), time |-> 1124],
     [revs |-> Wide(0, 7), time |-> 100]}

SessionCranks == {[revs |-> 513, time |-> 2048]}

\* the wheel sample of the frames that arrive cut short
CutFrameWheel == [revs |-> Wide(0, 4), time |-> 100]

\* the frames of a session: the layout the flags announce, whole (with or
\* without trailing bytes) or cut short at any length
SessionFrameSet ==
    {f \in Frames(0..3, SessionWheels, SessionCranks, Trails({170}, MaxTrailing)) :
        /\ LayoutMatches(f)
        /\ f.len < Len(Payload(f)) => f.wheel \in {None, Some(CutFrameWheel)}}

\* the same set, enumerated once
SessionFrames == {f : f \in SessionFrameSet}

\* frames for the decoder alone: reserved flag bits, layouts that do not
\* match the flags, any wheel count and time of the sets
DecodeWheels ==
    [revs : {Wide(0, 4), Wide(258, 772), Wide(65535, 65530)},
     time : {0, 1124, 65500}]

DecodeCranks == [revs : {513, 65535}, time : {0, 2048}]

DecodeFrames ==
    Frames((0..3) \cup (252..255), DecodeWheels, DecodeCranks,
           Trails({0, 170}, MaxTrailing))

----------------------------------------------------------------------------
(* The monitor *)

\* a call made on self.client: the method, whether the client was connected
\* when it was made, and whether it was when the call had returned or raised
Called(op, was, now) == [op |-> op, was |-> was, now |-> now]

monitor_vars == <<last_wheel_revs, last_wheel_time, speed_kmh>>

session_vars == <<client, is_connected, subscribed, pc, attempt, raised, propagates,
                  calls, sessions>>

note_vars == <<sent, data, measurement, shown, pre, diffs>>

\* a frame whose flags announce wheel data and whose buffer holds all of it
CompleteWheel(f) ==
    /\ wheel_revolution_present(f.flags)
    /\ f.wheel # None
    /\ f.len >= 7

\* a frame whose flags announce wheel data and whose buffer is too short for it
CutWheel(f) ==
    /\ wheel_revolution_present(f.flags)
    /\ f.len >= 1
    /\ f.len < 7

\* __init__ with the stored sample set to 0 instead of None
Init_StartsWithSample ==
    /\ client = None
    /\ is_connected = FALSE
    /\ subscribed = FALSE
    /\ last_wheel_revs = Some(Wide(0, 0))
    /\ last_wheel_time = Some(0)
    /\ speed_kmh = ZeroSpeed
    /\ pc = "idle"
    /\ attempt = 0
    /\ raised = "none"
    /\ propagates = "none"
    /\ calls = <<>>
    /\ inflight = None
    /\ sent = None
    /\ data = None
    /\ measurement = None
    /\ shown = None
    /\ pre = None
    /\ diffs = None
    /\ last_valid = None
    /\ wheel_seen = FALSE
    /\ sessions = 0

\* CyclingSensorMonitor.__init__, before connect_and_monitor is called
Init ==
    /\ client = None
    /\ is_connected = FALSE
    /\ subscribed = FALSE
    /\ last_wheel_revs = None
    /\ last_wheel_time = None
    /\ speed_kmh = ZeroSpeed
    /\ pc = "idle"
    /\ attempt = 0
    /\ raised = "none"
    /\ propagates = "none"
    /\ calls = <<>>
    /\ inflight = None
    /\ sent = None
    /\ data = None
    /\ measurement = None
    /\ shown = None
    /\ pre = None
    /\ diffs = None
    /\ last_valid = None
    /\ wheel_seen = FALSE
    /\ sessions = 0

\* the speed printed last during this call of connect_and_monitor, None if none was
LastPrintedSpeed ==
    IF shown # None /\ Get(shown).speed_kmh # None THEN Get(shown).speed_kmh
    ELSE IF pre # None THEN Get(pre).reported
    ELSE None

\* measurement_callback(sender, data) for the buffer of frame f
measurement_callback(f) ==
    \E d \in {Buffer(f)} :
    \E r \in {parse_csc_measurement(d, last_wheel_revs, last_wheel_time, speed_kmh)} :
        /\ last_wheel_revs' = r.last_wheel_revs
        /\ last_wheel_time' = r.last_wheel_time
        /\ speed_kmh' = r.speed_kmh
        /\ measurement' = r.result
        /\ shown' = Printed(r.result)
        /\ diffs' = r.diffs
        /\ sent' = Some(f)
        /\ data' = Some(d)
        /\ pre' = Some([last_wheel_revs |-> last_wheel_revs,
                        last_wheel_time |-> last_wheel_time,
                        speed_kmh |-> speed_kmh,
                        reported |-> LastPrintedSpeed,
                        cut_wheel |-> sent # None /\ CutWheel(Get(sent)),
                        after_empty |-> sent # None /\ Get(sent).len = 0,
                        after_wheel_clear |-> /\ sent # None
                                              /\ Get(sent).len >= 1
                                              /\ ~wheel_revolution_present(Get(sent).flags),
                        first_wheel |-> ~wheel_seen,
                        last_valid |-> last_valid])
        /\ wheel_seen' = (wheel_seen \/ (r.result # None /\ Get(r.result).wheel_revs # None))
        /\ last_valid' = IF CompleteWheel(f) THEN f.wheel ELSE last_valid

\* the transport delivers a notification while connect_and_monitor waits in
\* its monitoring loop
Notify ==
    /\ pc = "monitor"
    /\ is_connected
    /\ subscribed
    /\ inflight = None
    /\ \E f \in SessionFrames : measurement_callback(f)
    /\ UNCHANGED <<session_vars, inflight>>

\* the transport delivers the first notification it holds
Deliver ==
    /\ pc = "monitor"
    /\ is_connected
    /\ subscribed
    /\ inflight # None
    /\ measurement_callback(Head(inflight))
    /\ inflight' = Tail(inflight)
    /\ UNCHANGED session_vars

----------------------------------------------------------------------------
(* connect_and_monitor, one action per await and branch *)

\* connect_and_monitor is called: self.client = BleakClient(...); attempt = 0.
\* The notes about the last notification start empty for the new call.
Start ==
    /\ pc = "idle"
    /\ sessions < MaxSessions
    /\ sessions' = sessions + 1
    /\ client' = Some("BleakClient")
    /\ is_connected' = FALSE
    /\ subscribed' = FALSE
    /\ attempt' = 0
    /\ raised' = "none"
    /\ propagates' = "none"
    /\ calls' = <<>>
    /\ pc' = "connect"
    /\ sent' = None /\ data' = None /\ measurement' = None
    /\ shown' = None /\ pre' = None /\ diffs' = None
    /\ wheel_seen' = FALSE
    /\ UNCHANGED <<monitor_vars, inflight, last_valid>>

\* await self.client.connect() returns and the client is connected: break
ConnectOk ==
    /\ pc = "connect"
    /\ is_connected' = TRUE
    /\ calls' = Append(calls, Called("connect", is_connected, TRUE))
    /\ pc' = "check"
    /\ UNCHANGED <<client, subscribed, attempt, raised, propagates, sessions,
                   monitor_vars, note_vars, inflight, last_valid, wheel_seen>>

\* await self.client.connect() returns and the client is not connected:
\* the for loop goes on to the next attempt, or ends after the last one
ConnectNot ==
    /\ pc = "connect"
    /\ calls' = Append(calls, Called("connect", is_connected, FALSE))
    /\ IF attempt + 1 < max_retries
       THEN attempt' = attempt + 1 /\ pc' = "connect"
       ELSE attempt' = attempt /\ pc' = "check"
    /\ UNCHANGED <<client, is_connected, subscribed, raised, propagates, sessions,
                   monitor_vars, note_vars, inflight, last_valid, wheel_seen>>

\* connect() raises asyncio.TimeoutError on every attempt alike: raise at once
ConnectTimeout_NeverRetries ==
    /\ pc = "connect"
    /\ calls' = Append(calls, Called("connect", is_connected, FALSE))
    /\ pc' = "except" /\ raised' = "TimeoutError"
    /\ UNCHANGED <<client, is_connected, subscribed, attempt, propagates, sessions,
                   monitor_vars, note_vars, inflight, last_valid, wheel_seen>>

\* connect() raises asyncio.TimeoutError: sleep and retry, or re-raise on the
\* last attempt into the handlers of the outer try
ConnectTimeout ==
    /\ pc = "connect"
    /\ calls' = Append(calls, Called("connect", is_connected, FALSE))
    /\ IF attempt < max_retries - 1
       THEN pc' = "retry_sleep" /\ raised' = raised
       ELSE pc' = "except" /\ raised' = "TimeoutError"
    /\ UNCHANGED <<client, is_connected, subscribed, attempt, propagates, sessions,
                   monitor_vars, note_vars, inflight, last_valid, wheel_seen>>

\* await asyncio.sleep(2) ends: next iteration of the for loop
RetrySleep ==
    /\ pc = "retry_sleep"
    /\ attempt' = attempt + 1
    /\ pc' = "connect"
    /\ UNCHANGED <<client, is_connected, subscribed, raised, propagates, calls,
                   sessions, monitor_vars, note_vars, inflight, last_valid,
                   wheel_seen>>

\* connect() raises another exception: into the handlers of the outer try
ConnectError ==
    /\ pc = "connect"
    /\ calls' = Append(calls, Called("connect", is_connected, FALSE))
    /\ raised' = "Exception"
    /\ pc' = "except"
    /\ UNCHANGED <<client, is_connected, subscribed, attempt, propagates, sessions,
                   monitor_vars, note_vars, inflight, last_valid, wheel_seen>>

\* line 204 without its return: the subscription is tried in any case
CheckConnected_NoReturn ==
    /\ pc = "check"
    /\ pc' = "subscribe"
    /\ UNCHANGED <<client, is_connected, subscribed, attempt, raised, propagates,
                   calls, sessions, monitor_vars, note_vars, inflight, last_valid,
                   wheel_seen>>

\* if not self.client.is_connected: return; else sleep 0.5 and read_device_info,
\* which swallows every exception of its reads
CheckConnected ==
    /\ pc = "check"
    /\ pc' = IF is_connected THEN "subscribe" ELSE "finally"
    /\ UNCHANGED <<client, is_connected, subscribed, attempt, raised, propagates,
                   calls, sessions, monitor_vars, note_vars, inflight, last_valid,
                   wheel_seen>>

\* await self.client.start_notify(CSC_MEASUREMENT_UUID, self.measurement_callback)
\* on a connected client
SubscribeOk ==
    /\ pc = "subscribe"
    /\ is_connected
    /\ subscribed' = TRUE
    /\ calls' = Append(calls, Called("start_notify", is_connected, is_connected))
    /\ pc' = "monitor"
    /\ UNCHANGED <<client, is_connected, attempt, raised, propagates, sessions,
                   monitor_vars, note_vars, inflight, last_valid, wheel_seen>>

\* start_notify raises (the connection was lost, the characteristic is
\* missing, the request timed out): into the handlers of the outer try
SubscribeError ==
    /\ pc = "subscribe"
    /\ calls' = Append(calls, Called("start_notify", is_connected, is_connected))
    /\ raised' \in {"TimeoutError", "Exception"}
    /\ pc' = "except"
    /\ UNCHANGED <<client, is_connected, subscribed, attempt, propagates, sessions,
                   monitor_vars, note_vars, inflight, last_valid, wheel_seen>>

\* the transport reports the loss of the connection
ConnectionLost ==
    /\ pc \in {"check", "subscribe", "monitor"}
    /\ is_connected
    /\ is_connected' = FALSE
    /\ UNCHANGED <<client, subscribed, pc, attempt, raised, propagates, calls,
                   sessions, monitor_vars, note_vars, inflight, last_valid,
                   wheel_seen>>

\* while self.client.is_connected: ... ends; stop_notify in try/except: pass
StopMonitoring ==
    /\ pc = "monitor"
    /\ ~is_connected
    /\ subscribed' = FALSE
    /\ calls' = Append(calls, Called("stop_notify", is_connected, is_connected))
    /\ pc' = "finally"
    /\ UNCHANGED <<client, is_connected, attempt, raised, propagates, sessions,
                   monitor_vars, note_vars, inflight, last_valid, wheel_seen>>

\* handlers that catch asyncio.TimeoutError only
Caught_TimeoutOnly(exc) == exc = "TimeoutError"

\* except asyncio.TimeoutError: ... except Exception as e: ...
Caught(exc) == exc \in {"TimeoutError", "Exception"}

\* the exception raised in the try meets the handlers; the one they do not
\* catch leaves connect_and_monitor after the finally clause
Except ==
    /\ pc = "except"
    /\ propagates' = IF Caught(raised) THEN "none" ELSE raised
    /\ pc' = "finally"
    /\ UNCHANGED <<client, is_connected, subscribed, attempt, raised, calls,
                   sessions, monitor_vars, note_vars, inflight, last_valid,
                   wheel_seen>>

\* a finally clause that leaves the client as it is
Finally_NoDisconnect ==
    /\ pc = "finally"
    /\ subscribed' = FALSE
    /\ pc' = "idle"
    /\ UNCHANGED <<client, is_connected, attempt, raised, propagates, calls,
                   sessions, monitor_vars, note_vars, inflight, last_valid,
                   wheel_seen>>

\* finally: if self.client and self.client.is_connected: try: disconnect()
\* except: pass.  A disconnect() that raises may leave the client connected.
Finally ==
    /\ pc = "finally"
    /\ IF client # None /\ is_connected
       THEN \E closed \in BOOLEAN :
               /\ is_connected' = ~closed
               /\ calls' = Append(calls, Called("disconnect", is_connected, ~closed))
       ELSE UNCHANGED <<is_connected, calls>>
    /\ subscribed' = FALSE
    /\ pc' = "idle"
    /\ UNCHANGED <<client, attempt, raised, propagates, sessions,
                   monitor_vars, note_vars, inflight, last_valid, wheel_seen>>

Next ==
    \/ Start
    \/ ConnectOk
    \/ ConnectNot
    \/ ConnectTimeout
    \/ RetrySleep
    \/ ConnectError
    \/ CheckConnected
    \/ SubscribeOk
    \/ SubscribeError
    \/ ConnectionLost
    \/ StopMonitoring
    \/ Except
    \/ Finally
    \/ Notify

Spec == Init /\ [][Next]_vars

----------------------------------------------------------------------------
(* The decoder alone: a fresh monitor that has subscribed, and one         *)
(* notification of any shape held by the transport.                        *)

InitDecode ==
    /\ client = Some("BleakClient")
    /\ is_connected = TRUE
    /\ subscribed = TRUE
    /\ last_wheel_revs = None
    /\ last_wheel_time = None
    /\ speed_kmh = ZeroSpeed
    /\ pc = "monitor"
    /\ attempt = 0
    /\ raised = "none"
    /\ propagates = "none"
    /\ calls = <<Called("connect", FALSE, TRUE), Called("start_notify", TRUE, TRUE)>>
    /\ inflight \in Opt(DecodeFrames) \ {None}
    /\ sent = None
    /\ data = None
    /\ measurement = None
    /\ shown = None
    /\ pre = None
    /\ diffs = None
    /\ last_valid = None
    /\ wheel_seen = FALSE
    /\ sessions = 1

NextDecode == Deliver

SpecDecode == InitDecode /\ [][NextDecode]_vars

----------------------------------------------------------------------------
(* The speed computation alone: a fresh monitor that has subscribed, and   *)
(* two complete wheel notifications held by the transport.                 *)

SpeedWheels ==
    [revs : {Wide(0, 0), Wide(0, 1), Wide(0, 4), Wide(0, 7), Wide(0, 100), Wide(0, 270)},
     time : {0, 1, 100, 1124, 65500, 65535}]

SpeedFrames ==
    {[flags |-> 1, wheel |-> Some(w), crank |-> None, trailing |-> <<>>, len |-> 7] :
        w \in SpeedWheels}

InitSpeed ==
    /\ client = Some("BleakClient")
    /\ is_connected = TRUE
    /\ subscribed = TRUE
    /\ last_wheel_revs = None
    /\ last_wheel_time = None
    /\ speed_kmh = ZeroSpeed
    /\ pc = "monitor"
    /\ attempt = 0
    /\ raised = "none"
    /\ propagates = "none"
    /\ calls = <<Called("connect", FALSE, TRUE), Called("start_notify", TRUE, TRUE)>>
    /\ inflight \in {<<f, g>> : f \in SpeedFrames, g \in SpeedFrames}
    /\ sent = None
    /\ data = None
    /\ measurement = None
    /\ shown = None
    /\ pre = None
    /\ diffs = None
    /\ last_valid = None
    /\ wheel_seen = FALSE
    /\ sessions = 1

NextSpeed == Deliver

SpecSpeed == InitSpeed /\ [][NextSpeed]_vars

----------------------------------------------------------------------------
(* Notifications without wheel data between wheel notifications: a fresh   *)
(* monitor that has subscribed, and held by the transport two complete     *)
(* wheel notifications, a notification of any shape whose wheel bit is     *)
(* clear, and one more complete wheel notification.                        *)

InterleaveWheels ==
    {[revs |-> Wide(0, 4), time |-> 100], [revs |-> Wide(0, 7), time |-> 1124]}

WheelFrames ==
    {[flags |-> 1, wheel |-> Some(w), crank |-> None, trailing |-> <<>>, len |-> 7] :
        w \in InterleaveWheels}

WheelClearFrames ==
    {g \in DecodeFrames : g.len >= 1 /\ ~wheel_revolution_present(g.flags)}

InitInterleave ==
    /\ client = Some("BleakClient")
    /\ is_connected = TRUE
    /\ subscribed = TRUE
    /\ last_wheel_revs = None
    /\ last_wheel_time = None
    /\ speed_kmh = ZeroSpeed
    /\ pc = "monitor"
    /\ attempt = 0
    /\ raised = "none"
    /\ propagates = "none"
    /\ calls = <<Called("connect", FALSE, TRUE), Called("start_notify", TRUE, TRUE)>>
    /\ inflight \in {<<f1, f2, g, h>> :
                        f1 \in WheelFrames, f2 \in WheelFrames,
                        g \in WheelClearFrames, h \in WheelFrames}
    /\ sent = None
    /\ data = None
    /\ measurement = None
    /\ shown = None
    /\ pre = None
    /\ diffs = None
    /\ last_valid = None
    /\ wheel_seen = FALSE
    /\ sessions = 1

NextInterleave == Deliver

SpecInterleave == InitInterleave /\ [][NextInterleave]_vars

----------------------------------------------------------------------------
(* Properties.  They speak of the notification handled last: its frame,    *)
(* the returned measurement, the deltas of that call, and the fields of    *)
(* the monitor before it.                                                  *)

ThisFrame == Get(sent)

ThisResult == Get(measurement)

Deltas == Get(diffs)

Before == Get(pre)

\* w mod 2^32, for -2^32 < w < 2^32
WideMod32(w) == IF w[1] < 0 THEN <<w[1] + 65536, w[2]>> ELSE w

\* C1: whenever parse_csc_measurement computes a speed, the revolution delta
\* it uses is (current - previous) mod 2^32, hence never negative; previous =
\* 4294967290 and current = 4 give 10.
C1_RevDeltaIsModular ==
    (diffs # None /\ Deltas.computed) =>
        LET cur == Get(ThisResult.wheel_revs)
            prev == Get(Before.last_wheel_revs)
        IN  /\ Deltas.rev = WideMod32(WideSub(cur, prev))
            /\ ~WideIsNeg(Deltas.rev)
            /\ (prev = Wide(65535, 65530) /\ cur = Wide(0, 4)) => Deltas.rev = Wide(0, 10)

\* C2: the stored speed is never negative, and neither is the speed reported
\* for a notification.
C2_SpeedNonNegative ==
    /\ ~SpeedIsNegative(speed_kmh)
    /\ measurement # None => ~SpeedIsNegative(ThisResult.speed_kmh)

\* C3: whenever parse_csc_measurement computes a time delta, the delta is
\* (current - previous) mod 2^16, hence in 0..65535; previous = 65500 and
\* current = 100 give 136.
C3_TimeDeltaIsModular ==
    diffs # None =>
        LET cur == Get(ThisResult.wheel_time)
            prev == Get(Before.last_wheel_time)
        IN  /\ Deltas.time = (cur - prev) % 65536
            /\ Deltas.time \in 0..65535
            /\ (prev = 65500 /\ cur = 100) => Deltas.time = 136

\* a time delta was computed across a rollover of the 16-bit event time
C3_Witness ==
    /\ diffs # None
    /\ Get(Before.last_wheel_time) = 65500
    /\ Get(ThisResult.wheel_time) = 100
    /\ Deltas.time = 136

\* C4: a wheel notification with the event time of the previous wheel sample
\* (time delta 0) reports the speed that was reported before it.
C4_ZeroTimeDeltaKeepsReportedSpeed ==
    (diffs # None /\ Deltas.time = 0 /\ Before.reported # None) =>
        /\ ThisResult.speed_kmh = Get(Before.reported)
        /\ Get(shown).speed_kmh = Before.reported

\* the buffer handled last has flags and is too short for a field they announce
Truncated == data # None /\ Len(Get(data)) >= 1 /\ Len(Get(data)) < MinLength(Get(data)[1])

C6_NoSpeedFromPreviousSession ==
    (sessions >= 2 /\ pre # None /\ Before.first_wheel
        /\ measurement # None /\ ThisResult.wheel_revs # None) =>
        /\ diffs = None
        /\ speed_kmh = Before.speed_kmh

\* C7: a notification with the wheel bit set and fewer than 7 bytes leaves the
\* stored wheel sample and the stored speed as they were, and the deltas of the
\* complete wheel notification that follows it are taken from the last
\* complete wheel sample received before it.
C7_CutWheelFrameIsolated ==
    /\ (sent # None /\ CutWheel(ThisFrame)) =>
          /\ last_wheel_revs = Before.last_wheel_revs
          /\ last_wheel_time = Before.last_wheel_time
          /\ speed_kmh = Before.speed_kmh
    /\ (sent # None /\ Before.cut_wheel /\ CompleteWheel(ThisFrame)
          /\ Before.last_valid # None) =>
          /\ diffs # None
          /\ Deltas.rev = WideSub(Get(ThisFrame.wheel).revs, Get(Before.last_valid).revs)
          /\ Deltas.time =
                (Get(ThisFrame.wheel).time - Get(Before.last_valid).time) % 65536

\* a complete wheel frame right after a cut one, its speed computed from the
\* complete frame before the cut one
C7_Witness ==
    /\ sent # None
    /\ Before.cut_wheel
    /\ CompleteWheel(ThisFrame)
    /\ Before.last_valid # None
    /\ diffs # None
    /\ Deltas.computed
    /\ Deltas.time = 1024
    /\ Deltas.rev = Wide(0, 3)

\* both bits set, the wheel field complete and the crank field cut short
PartialCrank ==
    /\ data # None
    /\ Len(Get(data)) \in 7..10
    /\ wheel_revolution_present(Get(data)[1])
    /\ crank_revolution_present(Get(data)[1])

WellFormed ==
    /\ sent # None
    /\ LayoutMatches(ThisFrame)
    /\ ThisFrame.len = Len(Payload(ThisFrame))

\* C9: a well-formed frame, with or without reserved flag bits and trailing
\* bytes, decodes to the wheel sample it carries iff bit 0 is set and to the
\* crank sample it carries iff bit 1 is set; whatever the buffer, a field whose
\* bit is clear is None.
C9_DecodeRoundTrip ==
    /\ WellFormed =>
          /\ measurement # None
          /\ ThisResult.wheel_revs =
                IF wheel_revolution_present(ThisFrame.flags)
                THEN Some(Get(ThisFrame.wheel).revs) ELSE None
          /\ ThisResult.wheel_time =
                IF wheel_revolution_present(ThisFrame.flags)
                THEN Some(Get(ThisFrame.wheel).time) ELSE None
          /\ ThisResult.crank_revs =
                IF crank_revolution_present(ThisFrame.flags)
                THEN Some(Get(ThisFrame.crank).revs) ELSE None
          /\ ThisResult.crank_time =
                IF crank_revolution_present(ThisFrame.flags)
                THEN Some(Get(ThisFrame.crank).time) ELSE None
    /\ measurement # None =>
          /\ ~wheel_revolution_present(Get(data)[1]) =>
                ThisResult.wheel_revs = None /\ ThisResult.wheel_time = None
          /\ ~crank_revolution_present(Get(data)[1]) =>
                ThisResult.crank_revs = None /\ ThisResult.crank_time = None

\* reserved bits set, both fields and a trailing byte: both samples decoded,
\* the wheel count one that needs all 4 bytes
C9_Witness ==
    /\ WellFormed
    /\ ThisFrame.flags = 255
    /\ ThisFrame.trailing # <<>>
    /\ ThisResult.wheel_revs = Some(Wide(258, 772))
    /\ ThisResult.wheel_time = Some(65500)
    /\ ThisResult.crank_revs = Some(513)
    /\ ThisResult.crank_time = Some(2048)

\* C10: the stored wheel sample is the sample of the last notification wheel
\* data was decoded from, None if there was none; every decoded wheel sample
\* replaces it, also when its time delta is 0, and nothing else changes it.
C10_StoredSampleIsLastDecoded ==
    /\ last_wheel_revs =
          IF last_valid = None THEN None ELSE Some(Get(last_valid).revs)
    /\ last_wheel_time =
          IF last_valid = None THEN None ELSE Some(Get(last_valid).time)
    /\ sent # None =>
          IF measurement # None /\ ThisResult.wheel_revs # None
          THEN /\ last_wheel_revs = ThisResult.wheel_revs
               /\ last_wheel_time = ThisResult.wheel_time
               /\ last_valid = ThisFrame.wheel
          ELSE /\ last_wheel_revs = Before.last_wheel_revs
               /\ last_wheel_time = Before.last_wheel_time

\* a wheel sample with time delta 0 and another count has replaced the stored one
C10_Witness ==
    /\ diffs # None
    /\ Deltas.time = 0
    /\ last_wheel_revs # Before.last_wheel_revs
    /\ last_wheel_revs = ThisResult.wheel_revs

\* the notification handled last is the first one of this call of
\* connect_and_monitor that wheel data was decoded from
FirstWheelOfSession ==
    /\ pre # None
    /\ Before.first_wheel
    /\ measurement # None
    /\ ThisResult.wheel_revs # None

\* C11: in the first session of a monitor, the first wheel notification
\* computes no speed (the stored and the reported speed are 0.0) and only
\* stores its sample; until then the speed is 0.0 and nothing is stored; a
\* speed is computed only by a later wheel sample with a positive time delta.
C11_FirstWheelSampleComputesNoSpeed ==
    sessions = 1 =>
        /\ FirstWheelOfSession =>
              /\ diffs = None
              /\ speed_kmh = ZeroSpeed
              /\ ThisResult.speed_kmh = ZeroSpeed
              /\ last_wheel_revs = ThisResult.wheel_revs
              /\ last_wheel_time = ThisResult.wheel_time
        /\ ~wheel_seen =>
              /\ speed_kmh = ZeroSpeed
              /\ last_wheel_revs = None
              /\ last_wheel_time = None
        /\ (pre # None /\ speed_kmh # Before.speed_kmh) =>
              /\ diffs # None
              /\ Deltas.computed
              /\ Deltas.time > 0
              /\ ~Before.first_wheel

\* the first wheel sample of a fresh monitor has been stored, no speed computed
C11_Witness ==
    /\ sessions = 1
    /\ FirstWheelOfSession
    /\ diffs = None
    /\ speed_kmh = ZeroSpeed
    /\ last_wheel_revs = Some(Wide(0, 4))
    /\ last_wheel_time = Some(100)

\* C12: the speed a wheel notification stores is rev_diff * 2105 / 1000 over
\* time_diff / 1024, times 3.6; in thousandths of a km/h, rounded down, that
\* is the m with m * time_diff <= rev_diff * 7759872 < (m + 1) * time_diff,
\* as 2105 * 1024 * 3.6 = 7759872; 3 revolutions in 1024 ticks give 22734.
C12_SpeedFormula ==
    (diffs # None /\ Deltas.computed) =>
        /\ Deltas.time > 0
        /\ ThisResult.speed_kmh = speed_kmh
        /\ (Deltas.rev[1] = 0 /\ Deltas.rev[2] <= 270) =>
              LET m == MilliKmh(speed_kmh)
                  rev == Deltas.rev[2]
              IN  /\ m * Deltas.time <= rev * 7759872
                  /\ rev * 7759872 < (m + 1) * Deltas.time
        /\ (Deltas.rev = Wide(0, 3) /\ Deltas.time = 1024) =>
              MilliKmh(speed_kmh) = 22734

\* 3 revolutions in 1024 ticks have been stored as 22.734 km/h
C12_Witness ==
    /\ diffs # None
    /\ Deltas.computed
    /\ Deltas.rev = Wide(0, 3)
    /\ Deltas.time = 1024
    /\ MilliKmh(speed_kmh) = 22734
    /\ ThisResult.speed_kmh = speed_kmh

\* C13: the speed computation is reached only with a time delta that is
\* strictly positive, so no speed is a quotient over 0; a wheel notification
\* whose time delta is 0 skips the computation and the stored speed stays.
C13_NoDivisionByZero ==
    /\ speed_kmh.ticks > 0
    /\ diffs # None =>
          /\ Deltas.time \in 0..65535
          /\ Deltas.computed <=> Deltas.time > 0
          /\ Deltas.computed =>
                /\ speed_kmh.ticks > 0
                /\ ThisResult.speed_kmh.ticks > 0
          /\ Deltas.time = 0 =>
                /\ ~Deltas.computed
                /\ speed_kmh = Before.speed_kmh

\* a wheel notification with the time of the stored sample has been handled
\* while a speed other than 0.0 was stored
C13_Witness ==
    /\ diffs # None
    /\ Deltas.time = 0
    /\ ~Deltas.computed
    /\ ThisResult.wheel_revs # None
    /\ Before.speed_kmh # ZeroSpeed
    /\ speed_kmh = Before.speed_kmh

\* the notification handled last had no bytes
EmptyNotification ==
    /\ sent # None
    /\ ThisFrame.len = 0

\* C14: a notification of length 0 is dropped: nothing is parsed from it,
\* nothing is printed, the stored sample and the stored speed stay; and the
\* notification after it is handled as parse_csc_measurement handles its
\* buffer against that unchanged state.
C14_EmptyNotificationDropped ==
    /\ EmptyNotification =>
          /\ data = Some(<<>>)
          /\ measurement = None
          /\ shown = None
          /\ diffs = None
          /\ last_wheel_revs = Before.last_wheel_revs
          /\ last_wheel_time = Before.last_wheel_time
          /\ speed_kmh = Before.speed_kmh
    /\ (pre # None /\ Before.after_empty) =>
          LET r == parse_csc_measurement(Get(data), Before.last_wheel_revs,
                                         Before.last_wheel_time, Before.speed_kmh)
          IN  /\ measurement = r.result
              /\ shown = Printed(r.result)
              /\ last_wheel_revs = r.last_wheel_revs
              /\ last_wheel_time = r.last_wheel_time
              /\ speed_kmh = r.speed_kmh
              /\ (CompleteWheel(ThisFrame) /\ Before.last_valid # None) =>
                    /\ diffs # None
                    /\ Deltas.time =
                          TimeDiff(Get(ThisFrame.wheel).time, Get(Before.last_valid).time)

\* an empty notification has been dropped while a sample and a speed were stored
C14_Witness ==
    /\ EmptyNotification
    /\ measurement = None
    /\ shown = None
    /\ last_wheel_revs = Some(Wide(0, 7))
    /\ last_wheel_time = Some(1124)
    /\ speed_kmh = [revs |-> Wide(0, 3), ticks |-> 1024]
    /\ Before.speed_kmh = speed_kmh

\* a wheel notification after an empty one has had its speed computed
C14_NextWitness ==
    /\ pre # None
    /\ Before.after_empty
    /\ diffs # None
    /\ Deltas.computed
    /\ Deltas.rev = Wide(0, 3)
    /\ Deltas.time = 1024

\* the positions in calls of the calls of one method
CallsOf(op) == {i \in DOMAIN calls : calls[i].op = op}

\* a connection attempt of this call of connect_and_monitor left the client connected
Established == \E i \in CallsOf("connect") : calls[i].now

\* connect_and_monitor has been called and has ended
Ended ==
    /\ pc = "idle"
    /\ sessions >= 1

C15_NeverConnectedWitness ==
    /\ Ended
    /\ raised = "none"
    /\ ~Established
    /\ Len(calls) = 3
    /\ CallsOf("start_notify") = {}

\* C16: at most 3 connection attempts are made; none follows an attempt that
\* left the client connected; a timeout of attempt 1 or 2 leads to the sleep
\* before another attempt and never ends the attempts; a timeout of attempt 3
\* ends the session without start_notify; any other error of an attempt is
\* the last call of the session.
C16_AtMostThreeAttempts ==
    /\ Cardinality(CallsOf("connect")) <= 3
    /\ attempt \in 0..2
    /\ \A i \in CallsOf("connect") : \A j \in CallsOf("connect") :
          j < i => ~calls[j].now
    /\ pc = "connect" => Cardinality(CallsOf("connect")) = attempt
    /\ pc = "retry_sleep" =>
          /\ Cardinality(CallsOf("connect")) = attempt + 1
          /\ attempt + 1 \in {1, 2}
          /\ raised = "none"
    /\ (raised = "TimeoutError" /\ ~Established) =>
          /\ Cardinality(CallsOf("connect")) = 3
          /\ Len(calls) = 3
          /\ pc \in {"except", "finally", "idle"}
          /\ ~subscribed
    /\ (raised = "Exception" /\ ~Established) =>
          /\ Len(calls) = Cardinality(CallsOf("connect"))
          /\ pc \in {"except", "finally", "idle"}
          /\ ~subscribed
    /\ (pc \in {"check", "except", "finally"} \/ Ended) =>
          \/ Cardinality(CallsOf("connect")) = 3
          \/ Established
          \/ raised = "Exception"

\* the third attempt has timed out and the session has ended
C16_Witness ==
    /\ Ended
    /\ raised = "TimeoutError"
    /\ propagates = "none"
    /\ calls = <<Called("connect", FALSE, FALSE), Called("connect", FALSE, FALSE),
                 Called("connect", FALSE, FALSE)>>

\* the second attempt has raised an error other than a timeout and the
\* session has ended
C16_ErrorWitness ==
    /\ Ended
    /\ raised = "Exception"
    /\ Len(calls) = 2
    /\ ~Established

\* C17: when crank data is reported for a notification whose wheel bit is
\* set, wheel data is reported for it too, and the crank values are the ones
\* at byte offset 7-10 of the buffer.
C17_CrankNeverReadFromWheelBytes ==
    (/\ measurement # None
     /\ wheel_revolution_present(ThisFrame.flags)
     /\ ThisResult.crank_revs # None) =>
        /\ ThisResult.wheel_revs # None
        /\ Len(Get(data)) >= 11
        /\ ThisResult.crank_revs = Some(unpack_H(Get(data), 7))
        /\ ThisResult.crank_time = Some(unpack_H(Get(data), 9))

\* the notification handled last had bit 0 of its flags clear
WheelBitClear ==
    /\ sent # None
    /\ ThisFrame.len >= 1
    /\ ~wheel_revolution_present(ThisFrame.flags)

\* C18: a notification whose wheel bit is clear, whatever its crank bit, its
\* length and its content, reports no wheel data and leaves the stored
\* sample and the stored speed as they were; the wheel notification after it
\* has its deltas taken against the sample of the wheel notification before it.
C18_WheelBitClearChangesNothing ==
    /\ WheelBitClear =>
          /\ measurement # None
          /\ ThisResult.wheel_revs = None
          /\ ThisResult.wheel_time = None
          /\ diffs = None
          /\ last_wheel_revs = Before.last_wheel_revs
          /\ last_wheel_time = Before.last_wheel_time
          /\ speed_kmh = Before.speed_kmh
    /\ (pre # None /\ Before.after_wheel_clear /\ CompleteWheel(ThisFrame)
            /\ Before.last_valid # None) =>
          /\ diffs # None
          /\ Deltas.rev = RevDiff(Get(ThisFrame.wheel).revs, Get(Before.last_valid).revs)
          /\ Deltas.time = TimeDiff(Get(ThisFrame.wheel).time, Get(Before.last_valid).time)

\* a crank-only notification with its crank data has been handled while a
\* sample and a speed were stored
C18_Witness ==
    /\ WheelBitClear
    /\ ThisFrame.flags = 254
    /\ ThisFrame.len = 11 + MaxTrailing
    /\ ThisResult.crank_revs # None
    /\ last_wheel_revs = Some(Wide(0, 7))
    /\ last_wheel_time = Some(1124)
    /\ speed_kmh = [revs |-> Wide(0, 3), ticks |-> 1024]
    /\ Before.speed_kmh = speed_kmh

\* a wheel notification after a crank-only one has had its speed computed
\* from the wheel sample before that
C18_InterleavedWitness ==
    /\ pre # None
    /\ Before.after_wheel_clear
    /\ diffs # None
    /\ Deltas.computed
    /\ Deltas.rev = Wide(0, 3)
    /\ Deltas.time = 1024

\* C19: however connect_and_monitor ends, no exception leaves it, and if the
\* client is connected when the finally clause runs, disconnect is called
\* exactly once, as the last call: the method does not return with a
\* connected client it has not tried to disconnect.
C19_EndsHandledAndDisconnects ==
    /\ propagates = "none"
    /\ raised \in {"none", "TimeoutError", "Exception"}
    /\ Cardinality(CallsOf("disconnect")) <= 1
    /\ \A i \in CallsOf("disconnect") :
          /\ calls[i].was
          /\ i = Len(calls)
          /\ Ended
    /\ pc = "finally" => CallsOf("disconnect") = {}
    /\ (Ended /\ CallsOf("disconnect") = {}) => ~is_connected
    /\ (Ended /\ raised # "none") =>
          calls[Len(calls)].op \in {"connect", "start_notify", "disconnect"}

\* start_notify raised on a connected client, the error was handled and the
\* client disconnected in the finally clause
C19_Witness ==
    /\ Ended
    /\ raised = "Exception"
    /\ propagates = "none"
    /\ ~is_connected
    /\ calls = <<Called("connect", FALSE, TRUE), Called("start_notify", TRUE, TRUE),
                 Called("disconnect", TRUE, FALSE)>>

\* the disconnect of the finally clause raised and the client stayed connected
C19_FailedDisconnectWitness ==
    /\ Ended
    /\ is_connected
    /\ Cardinality(CallsOf("disconnect")) = 1

====
